---- MODULE Spec2Model ----
(***************************************************************************)
(* Leave-request form (static/js/leave-form.js): the date-selection state  *)
(* machine of the two calendars, the form gating, and the attachment       *)
(* preview pipeline.                                                       *)
(*                                                                         *)
(* Time is counted in hours since the epoch.  A JavaScript Date is the     *)
(* integer instant it holds; a calendar day is a day number; an ISO date   *)
(* string "YYYY-MM-DD" is the day number it names.  The value of a form    *)
(* field is a sequence: <<>> is the empty string.                          *)
(*                                                                         *)
(* Handlers are modelled as the code writes them: none of them looks at    *)
(* whether its control is visible or enabled, so none is guarded by it.    *)
(* Labels, CSS classes and block visibility are not part of the state      *)
(* (the DOM listener of #modeSwitch, lines 196-217, changes nothing else). *)
(* updateDateRange and the module-level startDate/endDate of lines 55-91   *)
(* are never called or read by any handler and are left out.               *)
(***************************************************************************)
EXTENDS Integers, Sequences, FiniteSets, TLC

\* ------------------------------------------------------------------ bounds
MaxDay == 4
DstDay == 3
MaxReads == 3

\* --------------------------------------------------------------- constants
HoursPerDay == 24
MaxFileSize == 10485760
Today == 2
Null == -1

Days == 1..MaxDay

\* ------------------------------------------------------- local time zones
\* The browser's zone: a fixed offset, or one whose offset changes by an
\* hour in the night of DstDay (after that day's midnight).
Zones == {"UTC", "East", "Spring", "Fall"}

UtcOffset(z, d) ==
    CASE z = "UTC"    -> 0
      [] z = "East"   -> 8
      [] z = "Spring" -> IF d <= DstDay THEN -5 ELSE -4
      [] z = "Fall"   -> IF d <= DstDay THEN -4 ELSE -5

\* info.date of a day cell: the instant of local midnight of day d
Midnight(z, d) == d * HoursPerDay - UtcOffset(z, d)

\* date.toISOString().split('T')[0]: the UTC calendar day of an instant
ToISODate(t) == <<t \div HoursPerDay>>

\* Math.ceil(a / b)
Ceil(a, b) == -((-a) \div b)

\* Math.ceil((end - start) / (1000 * 60 * 60 * 24)) + 1
DurationDays(start, end) == Ceil(end - start, HoursPerDay) + 1

\* ------------------------------------------------------------ strings
\* String.prototype.trim on a string of characters
RECURSIVE TrimLeft(_)
TrimLeft(s) == IF s # <<>> /\ Head(s) = " " THEN TrimLeft(Tail(s)) ELSE s

RECURSIVE TrimRight(_)
TrimRight(s) ==
    IF s # <<>> /\ s[Len(s)] = " " THEN TrimRight(SubSeq(s, 1, Len(s) - 1)) ELSE s

Trim(s) == TrimRight(TrimLeft(s))

\* String.prototype.toLowerCase on the extensions that occur
ToLowerCase(s) ==
    CASE s = "PDF" -> "pdf"
      [] s = "PNG" -> "png"
      [] s = "JPG" -> "jpg"
      [] OTHER -> s

\* ------------------------------------------------- selectedDates (a Map)
\* A Map keyed by info.dateStr; its values are all true and its keys are
\* only ever read sorted, so it is kept as the set of its keys.
MapHas(m, k) == k \in m

MapSet(m, k) == m \cup {k}

MapDelete(m, k) == m \ {k}

\* [...selectedDates.keys()].sort(): ISO date strings in ascending order
RECURSIVE SortedKeys(_)
SortedKeys(m) ==
    IF m = {} THEN <<>>
    ELSE LET least == CHOOSE x \in m : \A y \in m : x <= y
         IN  <<least>> \o SortedKeys(m \ {least})

\* ------------------------------------------------------------ attachments
NoFile == [name |-> <<>>, type |-> <<>>, size |-> 0]

\* name is split at '.', type at '/'
Files ==
    { [name |-> <<"scan", "png">>,   type |-> <<"image", "png">>,       size |-> 2048],
      [name |-> <<"letter", "PDF">>, type |-> <<"application", "pdf">>, size |-> MaxFileSize],
      [name |-> <<"photo", "jpg">>,  type |-> <<>>,                     size |-> 1],
      [name |-> <<"tool", "exe">>,   type |-> <<"application", "x">>,   size |-> 512],
      [name |-> <<"big", "gif">>,    type |-> <<"image", "gif">>,       size |-> MaxFileSize + 1] }

\* file.name.split('.').pop().toLowerCase()
Extension(file) == ToLowerCase(file.name[Len(file.name)])

AcceptedExtensions == {"pdf", "png", "jpg", "jpeg", "gif", "bmp"}
ImageExtensions == {"png", "jpg", "jpeg", "gif", "bmp"}

\* file.type.startsWith('image/')
IsImageType(file) == Len(file.type) >= 2 /\ file.type[1] = "image"

EmptyPreview == [kind |-> "empty", file |-> NoFile, src |-> "none"]

\* ------------------------------------------------------------------ state
VARIABLES
    tz,                    \* the browser's time zone
    startDate, endDate,    \* range selection (instants or Null)
    selectedDates,         \* set selection (the keys of the Map)
    simpleEvents,          \* background events of simpleCalendar
    modeSwitch,            \* #modeSwitch checked: TRUE = advanced (SET) mode
    leaveType,             \* #leaveType value
    notes,                 \* [name=notes] value
    submitDisabled,        \* button[type=submit] disabled
    notesDisabled,         \* [name=notes] disabled
    simpleDateInput,       \* #simpleDateInput value
    simpleEndDateInput,    \* #simpleEndDateInput value
    simpleDuration,        \* #simpleDuration value
    simpleDurationDisplay, \* #simpleDurationDisplay span text
    dates,                 \* #dates value, ';'-joined
    simpleDatePicker,      \* #simpleDatePicker value (read at submit)
    datesList,             \* #datesList value (read at submit)
    attachmentInput,       \* #attachmentInput chosen file
    attachmentPreview,     \* #attachmentPreview content
    readers,               \* FileReaders whose read is in flight
    nextReader,            \* number of the next FileReader created
    lastEvent              \* the event handled last, with its input

selVars == <<startDate, endDate, selectedDates, simpleEvents, modeSwitch>>
fieldVars == <<simpleDateInput, simpleEndDateInput, simpleDuration,
               simpleDurationDisplay, dates, simpleDatePicker, datesList>>
formVars == <<leaveType, notes, submitDisabled, notesDisabled>>
attVars == <<attachmentInput, attachmentPreview, readers, nextReader>>
vars == <<tz, selVars, fieldVars, formVars, attVars, lastEvent>>

LeaveTypes == {"", "annual"}
NotesValues == {<<>>, <<" ">>, <<" ", "a", " ">>}

\* The record of the event handled last: the handler, its input, whether it
\* acted, and for a change of #modeSwitch the number (1 or 2) it has in a
\* run of consecutive changes and the selection before the run's first.
NoSelection == <<Null, Null, {}>>

Event(op, arg, ok) ==
    LET second == op = "modeSwitch" /\ lastEvent.op = "modeSwitch" /\ lastEvent.run = 1
    IN  [ op |-> op, arg |-> arg, ok |-> ok,
          run |-> IF op # "modeSwitch" THEN 0 ELSE IF second THEN 2 ELSE 1,
          before |-> IF op # "modeSwitch" THEN NoSelection
                     ELSE IF second THEN lastEvent.before
                     ELSE <<startDate, endDate, selectedDates>> ]

\* The page after DOMContentLoaded: validateLeaveType() has run (line 221)
\* with no leave type chosen.  #simpleDatePicker and #datesList are inputs
\* that no handler writes; they hold whatever the page gives them.
Init ==
    /\ tz \in Zones
    /\ startDate = Null
    /\ endDate = Null
    /\ selectedDates = {}
    /\ simpleEvents = {}
    /\ modeSwitch = FALSE
    /\ leaveType = ""
    /\ notes = <<>>
    /\ submitDisabled = TRUE
    /\ notesDisabled = TRUE
    /\ simpleDateInput = <<>>
    /\ simpleEndDateInput = <<>>
    /\ simpleDuration = <<>>
    /\ simpleDurationDisplay = 0
    /\ dates = <<>>
    /\ simpleDatePicker \in {<<>>, <<Today>>}
    /\ datesList \in {<<>>, <<Today>>}
    /\ attachmentInput = NoFile
    /\ attachmentPreview = EmptyPreview
    /\ readers = {}
    /\ nextReader = 1
    /\ lastEvent = [op |-> "load", arg |-> 0, ok |-> TRUE, run |-> 0,
                    before |-> NoSelection]

\* ------------------------------------------------- helpers of the handlers
\* dateClick of simpleCalendar, lines 255-277: the range after a click on
\* the instant c that passed the past-date test
RangeAfterClickNoSwap(s, e, c) ==
    IF s = Null \/ (s # Null /\ e # Null)
    THEN [start |-> c, end |-> Null]
    ELSE [start |-> s, end |-> c]

RangeAfterClickKeepEnd(s, e, c) ==
    IF s = Null \/ (s # Null /\ e # Null)
    THEN [start |-> c, end |-> e]
    ELSE IF c < s THEN [start |-> c, end |-> s]
         ELSE [start |-> s, end |-> c]

RangeAfterClick(s, e, c) ==
    IF s = Null \/ (s # Null /\ e # Null)
    THEN [start |-> c, end |-> Null]
    ELSE IF c < s THEN [start |-> c, end |-> s]
         ELSE [start |-> s, end |-> c]

\* updateDateDisplay(start, end): the values it leaves in the range fields;
\* #simpleDuration is written only when end is given
UpdateDateDisplay(start, end, oldDuration) ==
    [ simpleDateInput       |-> IF start # Null THEN ToISODate(start) ELSE <<>>,
      simpleEndDateInput    |-> IF end # Null THEN ToISODate(end) ELSE <<>>,
      simpleDuration        |-> IF end # Null THEN <<DurationDays(start, end)>>
                                ELSE oldDuration,
      simpleDurationDisplay |-> IF end # Null THEN DurationDays(start, end) ELSE 0 ]

\* highlightRange(): the background events after removeAllEvents()
HighlightRange(start, end) ==
    IF start = Null THEN {}
    ELSE { [start |-> start, end |-> start + HoursPerDay, className |-> "selected-start"] }
         \cup
         ( IF end # Null
           THEN { [start |-> start, end |-> end + HoursPerDay, className |-> "selected-range"] }
           ELSE {} )

\* advancedCalendar: the background events it holds.  No handler calls
\* addEvent on it, so it never holds any.
AdvancedEvents == {}

\* validateForm() with a started range counted as valid dates
ValidateFormStartOnly(lt, isAdvanced, sel, s, e) ==
    LET hasValidDates == IF isAdvanced THEN Cardinality(sel) > 0 ELSE s # Null
    IN  lt = "" \/ ~hasValidDates

\* validateForm() of the calendar closure: the submit button's disabled flag
ValidateForm(lt, isAdvanced, sel, s, e) ==
    LET hasValidDates == IF isAdvanced THEN Cardinality(sel) > 0 ELSE (s # Null /\ e # Null)
    IN  lt = "" \/ ~hasValidDates

\* validateLeaveType(): disabled flag of the submit button and of the notes
ValidateLeaveType(lt) == (lt = "")

\* the date test of simpleCalendar.dateClick, lines 247-253
IsBeforeToday(z, clickedDate) == clickedDate < Midnight(z, Today)

\* ---------------------------------------------------------------- actions
\* simpleCalendar dateClick(info), info.date the local midnight of day d
SimpleDateClick(d) ==
    LET clickedDate == Midnight(tz, d) IN
    IF IsBeforeToday(tz, clickedDate)
    THEN /\ lastEvent' = Event("simpleDateClick", d, FALSE)
         /\ UNCHANGED <<tz, selVars, fieldVars, formVars, attVars>>
    ELSE LET r == RangeAfterClick(startDate, endDate, clickedDate)
             f == UpdateDateDisplay(r.start, r.end, simpleDuration)
         IN  /\ startDate' = r.start
             /\ endDate' = r.end
             /\ simpleDateInput' = f.simpleDateInput
             /\ simpleEndDateInput' = f.simpleEndDateInput
             /\ simpleDuration' = f.simpleDuration
             /\ simpleDurationDisplay' = f.simpleDurationDisplay
             /\ simpleEvents' = HighlightRange(r.start, r.end)
             /\ submitDisabled' =
                    ValidateForm(leaveType, modeSwitch, selectedDates, r.start, r.end)
             /\ lastEvent' = Event("simpleDateClick", d, TRUE)
             /\ UNCHANGED <<tz, selectedDates, modeSwitch, dates, simpleDatePicker,
                            datesList, leaveType, notes, notesDisabled, attVars>>

\* advancedCalendar dateClick, lines 334-336: the Map after the click and
\* whether the body of its if statement ran
AdvancedClickToggle(sel, dateStr) ==
    IF ~MapHas(sel, dateStr)
    THEN [sel |-> MapSet(sel, dateStr), acted |-> TRUE]
    ELSE [sel |-> MapDelete(sel, dateStr), acted |-> TRUE]

AdvancedClick(sel, dateStr) ==
    IF ~MapHas(sel, dateStr)
    THEN [sel |-> MapSet(sel, dateStr), acted |-> TRUE]
    ELSE [sel |-> sel, acted |-> FALSE]

\* advancedCalendar dateClick(info), info.dateStr the ISO string of day d
AdvancedDateClick(d) ==
    LET r == AdvancedClick(selectedDates, d) IN
    IF r.acted
    THEN /\ selectedDates' = r.sel
         /\ dates' = SortedKeys(selectedDates')
         /\ submitDisabled' =
                ValidateForm(leaveType, modeSwitch, selectedDates', startDate, endDate)
         /\ lastEvent' = Event("advancedDateClick", d, TRUE)
         /\ UNCHANGED <<tz, startDate, endDate, simpleEvents, modeSwitch,
                        simpleDateInput, simpleEndDateInput, simpleDuration,
                        simpleDurationDisplay, simpleDatePicker, datesList,
                        leaveType, notes, notesDisabled, attVars>>
    ELSE /\ lastEvent' = Event("advancedDateClick", d, FALSE)
         /\ UNCHANGED <<tz, selVars, fieldVars, formVars, attVars>>

\* window.removeDate(date)
RemoveDate(d) ==
    /\ selectedDates' = MapDelete(selectedDates, d)
    /\ dates' = SortedKeys(selectedDates')
    /\ submitDisabled' =
           ValidateForm(leaveType, modeSwitch, selectedDates', startDate, endDate)
    /\ lastEvent' = Event("removeDate", d, MapHas(selectedDates, d))
    /\ UNCHANGED <<tz, startDate, endDate, simpleEvents, modeSwitch,
                   simpleDateInput, simpleEndDateInput, simpleDuration,
                   simpleDurationDisplay, simpleDatePicker, datesList,
                   leaveType, notes, notesDisabled, attVars>>

\* clearDateSelection(), the click handler of #clearDates
ClearDates ==
    LET f == UpdateDateDisplay(Null, Null, simpleDuration) IN
    /\ startDate' = Null
    /\ endDate' = Null
    /\ simpleDateInput' = f.simpleDateInput
    /\ simpleEndDateInput' = f.simpleEndDateInput
    /\ simpleDuration' = f.simpleDuration
    /\ simpleDurationDisplay' = f.simpleDurationDisplay
    /\ simpleEvents' = {}
    /\ lastEvent' = Event("clearDates", 0, TRUE)
    /\ UNCHANGED <<tz, selectedDates, modeSwitch, dates, simpleDatePicker,
                   datesList, formVars, attVars>>

\* change of #modeSwitch: what the jQuery handler resets when the box is
\* now checked (isAdvanced) or unchecked
ModeSwitchResetBoth(isAdvanced, s, e, sel) ==
    [start |-> Null, end |-> Null, sel |-> {}]

ModeSwitchResetRangeOnly(isAdvanced, s, e, sel) ==
    IF isAdvanced
    THEN [start |-> Null, end |-> Null, sel |-> sel]
    ELSE [start |-> s, end |-> e, sel |-> sel]

ModeSwitchReset(isAdvanced, s, e, sel) ==
    IF isAdvanced
    THEN [start |-> Null, end |-> Null, sel |-> sel]
    ELSE [start |-> s, end |-> e, sel |-> {}]

ModeSwitchChange ==
    LET isAdvanced == ~modeSwitch
        r == ModeSwitchReset(isAdvanced, startDate, endDate, selectedDates)
        f == UpdateDateDisplay(Null, Null, simpleDuration)
    IN  /\ modeSwitch' = isAdvanced
        /\ startDate' = r.start
        /\ endDate' = r.end
        /\ selectedDates' = r.sel
        /\ IF isAdvanced
           THEN /\ simpleDateInput' = f.simpleDateInput
                /\ simpleEndDateInput' = f.simpleEndDateInput
                /\ simpleDuration' = f.simpleDuration
                /\ simpleDurationDisplay' = f.simpleDurationDisplay
                /\ simpleEvents' = {}
                /\ UNCHANGED dates
           ELSE /\ dates' = SortedKeys(r.sel)
                /\ UNCHANGED <<simpleDateInput, simpleEndDateInput, simpleDuration,
                               simpleDurationDisplay, simpleEvents>>
        /\ submitDisabled' = ValidateForm(leaveType, isAdvanced, r.sel, r.start, r.end)
        /\ lastEvent' = Event("modeSwitch", 0, isAdvanced)
        /\ UNCHANGED <<tz, simpleDatePicker, datesList, leaveType, notes,
                       notesDisabled, attVars>>

\* change of #leaveType to the value v.  Of its two listeners, the one of
\* line 480 is the submit-time validateForm called with the change event
\* (its form.querySelector('#leaveType') is null and it throws before any
\* effect); validateLeaveType is the one that acts.
LeaveTypeChange(v) ==
    /\ v # leaveType
    /\ leaveType' = v
    /\ submitDisabled' = ValidateLeaveType(v)
    /\ notesDisabled' = ValidateLeaveType(v)
    /\ lastEvent' = Event("leaveTypeChange", 0, v # "")
    /\ UNCHANGED <<tz, selVars, fieldVars, notes, attVars>>

\* input on [name=notes]: its listener of line 481 is the submit-time
\* validateForm called with the input event, which throws before any effect
NotesInput(n) ==
    /\ n # notes
    /\ notes' = n
    /\ lastEvent' = Event("notesInput", 0, Trim(n) # <<>>)
    /\ UNCHANGED <<tz, selVars, fieldVars, leaveType, submitDisabled,
                   notesDisabled, attVars>>

\* validateForm(event) on submit: TRUE when it returns true, FALSE when it
\* alerts and calls event.preventDefault()
SubmitCheck(lt, isAdvancedMode, list, picker, n) ==
    IF lt = "" THEN FALSE
    ELSE IF isAdvancedMode /\ list = <<>> THEN FALSE
    ELSE IF ~isAdvancedMode /\ picker = <<>> THEN FALSE
    ELSE IF Trim(n) = <<>> THEN FALSE
    ELSE TRUE

Submit ==
    /\ lastEvent' = Event("submit", 0,
                          SubmitCheck(leaveType, modeSwitch, datesList,
                                      simpleDatePicker, notes))
    /\ UNCHANGED <<tz, selVars, fieldVars, formVars, attVars>>

\* ------------------------------------------------------ attachment actions
\* the two tests of the change handler of #attachmentInput
FileAcceptedBelowLimit(file) ==
    /\ Extension(file) \in AcceptedExtensions
    /\ ~(file.size >= MaxFileSize)

FileAccepted(file) ==
    /\ Extension(file) \in AcceptedExtensions
    /\ ~(file.size > MaxFileSize)

\* createFilePreview(file): the FileReader it starts
NewReader(file, rid) ==
    [rid |-> rid, file |-> file,
     mode |-> IF IsImageType(file) THEN "dataURL" ELSE "arrayBuffer"]

LoadingPreview(file) == [kind |-> "loading", file |-> file, src |-> "none"]

\* reader.onload: the preview it writes
LoadedPreview(r) ==
    LET ext == Extension(r.file) IN
    IF ext \in ImageExtensions
    THEN [kind |-> "image", file |-> r.file, src |-> r.mode]
    ELSE IF ext = "pdf"
    THEN [kind |-> "pdf", file |-> r.file, src |-> "none"]
    ELSE EmptyPreview

\* reader.onerror: the preview it writes
ErrorPreview(r) == [kind |-> "error", file |-> NoFile, src |-> "none"]

\* change of #attachmentInput to another file; file = NoFile when the
\* chooser was emptied
AttachmentChange(file) ==
    /\ file # attachmentInput
    /\ file # NoFile => nextReader <= MaxReads
    /\ IF file = NoFile
       THEN /\ attachmentInput' = NoFile
            /\ lastEvent' = Event("attachmentChange", file, FALSE)
            /\ UNCHANGED <<attachmentPreview, readers, nextReader>>
       ELSE IF ~FileAccepted(file)
       THEN /\ attachmentInput' = NoFile
            /\ lastEvent' = Event("attachmentChange", file, FALSE)
            /\ UNCHANGED <<attachmentPreview, readers, nextReader>>
       ELSE /\ attachmentInput' = file
            /\ attachmentPreview' = LoadingPreview(file)
            /\ readers' = readers \cup {NewReader(file, nextReader)}
            /\ nextReader' = nextReader + 1
            /\ lastEvent' = Event("attachmentChange", file, TRUE)
    /\ UNCHANGED <<tz, selVars, fieldVars, formVars>>

\* a pending read completes: reader.onload
ReaderLoad(r) ==
    /\ r \in readers
    /\ readers' = readers \ {r}
    /\ attachmentPreview' = LoadedPreview(r)
    /\ lastEvent' = Event("readerLoad", r.rid, TRUE)
    /\ UNCHANGED <<tz, selVars, fieldVars, formVars, attachmentInput, nextReader>>

\* a pending read fails: reader.onerror
ReaderError(r) ==
    /\ r \in readers
    /\ readers' = readers \ {r}
    /\ attachmentPreview' = ErrorPreview(r)
    /\ lastEvent' = Event("readerError", r.rid, FALSE)
    /\ UNCHANGED <<tz, selVars, fieldVars, formVars, attachmentInput, nextReader>>

\* click on #clearAttachment
ClearAttachment ==
    /\ attachmentInput' = NoFile
    /\ attachmentPreview' = EmptyPreview
    /\ lastEvent' = Event("clearAttachment", 0, TRUE)
    /\ UNCHANGED <<tz, selVars, fieldVars, formVars, readers, nextReader>>

\* ---------------------------------------------------------- specifications
NextRange ==
    \/ \E d \in Days : SimpleDateClick(d)
    \/ \E d \in Days : AdvancedDateClick(d)
    \/ \E d \in Days : RemoveDate(d)
    \/ ClearDates
    \/ ModeSwitchChange

NextForm ==
    \/ NextRange
    \/ \E v \in LeaveTypes : LeaveTypeChange(v)
    \/ \E n \in NotesValues : NotesInput(n)
    \/ Submit

NextAttachment ==
    \/ \E file \in Files \cup {NoFile} : AttachmentChange(file)
    \/ \E r \in readers : ReaderLoad(r)
    \/ \E r \in readers : ReaderError(r)
    \/ ClearAttachment

Next == NextForm \/ NextAttachment

Spec == Init /\ [][Next]_vars

\* the calendars alone, in every time zone
InitRange == Init /\ simpleDatePicker = <<>> /\ datesList = <<>>
SpecRange == InitRange /\ [][NextRange]_vars

\* the calendars and the form, in one time zone
InitForm == Init /\ tz = "UTC"
SpecForm == InitForm /\ [][NextForm]_vars

\* the attachment pipeline alone
InitAttachment == InitRange /\ tz = "UTC"
SpecAttachment == InitAttachment /\ [][NextAttachment]_vars

\* the attachment pipeline when every started read completes or fails
ReaderDone == \E r \in readers : ReaderLoad(r) \/ ReaderError(r)

SpecAttachmentLive == SpecAttachment /\ WF_vars(ReaderDone)

\* the attachment pipeline and the leave type
NextGate ==
    \/ NextAttachment
    \/ \E v \in LeaveTypes : LeaveTypeChange(v)

SpecGate == InitAttachment /\ [][NextGate]_vars

\* the calendars and the leave type
NextPick ==
    \/ NextRange
    \/ \E v \in LeaveTypes : LeaveTypeChange(v)

SpecPick == InitRange /\ [][NextPick]_vars

\* ------------------------------------------------------------- properties
\* the calendar day whose local midnight is the instant t
LocalDay(z, t) == CHOOSE d \in Days : Midnight(z, d) = t

\* the selection a step is about
Selection == <<startDate, endDate, selectedDates>>

\* C1: in every reachable state, if the range end is present then the range
\* start is present and start <= end, compared by calendar day.
C1_RangeInvariant ==
    endDate # Null =>
        /\ startDate # Null
        /\ LocalDay(tz, startDate) <= LocalDay(tz, endDate)

\* C1 witness: a range completed by a click on a day after its start
C1_Witness ==
    /\ lastEvent.op = "simpleDateClick" /\ lastEvent.ok
    /\ startDate # Null /\ endDate # Null
    /\ endDate = Midnight(tz, lastEvent.arg)
    /\ LocalDay(tz, startDate) < LocalDay(tz, endDate)

\* C2: a click on a non-past day d of the RANGE calendar starts the range
\* {start: d} from an empty or completed range, and from {start: x} alone
\* yields {start: earlier of x and d, end: later of x and d}: so d1 then d2
\* and d2 then d1 both end in {start: d1, end: d2}.
C2_SwapInvariant ==
    [][ \A d \in Days :
          (lastEvent'.op = "simpleDateClick" /\ lastEvent'.arg = d /\ d >= Today) =>
            IF startDate = Null \/ endDate # Null
            THEN startDate' = Midnight(tz, d) /\ endDate' = Null
            ELSE LET x == LocalDay(tz, startDate) IN
                 /\ startDate' = Midnight(tz, IF d < x THEN d ELSE x)
                 /\ endDate' = Midnight(tz, IF d < x THEN x ELSE d) ]_vars

\* C2 witness: a range completed by a click on a day before its start (the
\* clicked day has become the start)
C2_Witness ==
    /\ lastEvent.op = "simpleDateClick" /\ lastEvent.ok
    /\ startDate # Null /\ endDate # Null
    /\ startDate = Midnight(tz, lastEvent.arg)
    /\ LocalDay(tz, startDate) < LocalDay(tz, endDate)

\* ---------------------------------------------------------- form validity
\* RANGE: start and end both set; SET: at least one date
SelectionValid ==
    IF modeSwitch THEN selectedDates # {} ELSE (startDate # Null /\ endDate # Null)

\* no file chosen, or the chosen file passed the type and size tests
AttachmentValid == attachmentInput = NoFile \/ FileAccepted(attachmentInput)

CanSubmit ==
    /\ leaveType # ""
    /\ SelectionValid
    /\ Trim(notes) # <<>>
    /\ AttachmentValid

\* C3: after any sequence of events the submit button is enabled exactly
\* when a leave type is selected, the active mode's selection is valid, the
\* trimmed notes are non-empty and the attachment is valid.
C3_SubmitEnabledIffValid == (~submitDisabled) <=> CanSubmit

\* C4: a submit event proceeds only if a leave type is selected, the active
\* mode's selection is valid and the trimmed notes are non-empty; a blocked
\* submission changes neither the selection nor the form fields.
C4_SubmitCheckBlocksInvalid ==
    [][ lastEvent'.op = "submit" =>
          /\ lastEvent'.ok =>
                (leaveType # "" /\ SelectionValid /\ Trim(notes) # <<>>)
          /\ UNCHANGED <<selVars, fieldVars, formVars>> ]_vars

\* ------------------------------------------------------ overlapping loads
\* a read is stale once a newer FileReader has been started
Stale(rid) == rid < nextReader - 1

\* C5: with two accepted files whose reads overlap, the completion (success
\* or error) of the older read never changes the preview area, and the
\* completion of the newest read writes that read's outcome.
C5_LastWriterWins ==
    [][ \A r \in readers :
          /\ (lastEvent'.op \in {"readerLoad", "readerError"}
                /\ lastEvent'.arg = r.rid /\ Stale(r.rid))
             => attachmentPreview' = attachmentPreview
          /\ (lastEvent'.op = "readerLoad" /\ lastEvent'.arg = r.rid /\ ~Stale(r.rid))
             => attachmentPreview' = LoadedPreview(r)
          /\ (lastEvent'.op = "readerError" /\ lastEvent'.arg = r.rid /\ ~Stale(r.rid))
             => attachmentPreview' = ErrorPreview(r) ]_vars

\* ------------------------------------------------------------ mode switch
\* C6 as claimed: after two consecutive mode switches the range and the set
\* are as they were before the first of them.
C6_DoubleSwitchIsNoOp ==
    (lastEvent.op = "modeSwitch" /\ lastEvent.run = 2) => Selection = lastEvent.before

\* C6 amended: after two consecutive mode switches the range and the set are
\* both empty (each switch clears the selection of the mode it leaves).
C6_DoubleSwitchEmptiesBoth ==
    (lastEvent.op = "modeSwitch" /\ lastEvent.run = 2) => Selection = NoSelection

\* C6 witness: two consecutive switches from a state with a completed range
\* and a non-empty set
C6_Witness ==
    /\ lastEvent.op = "modeSwitch" /\ lastEvent.run = 2
    /\ lastEvent.before[1] # Null /\ lastEvent.before[2] # Null
    /\ lastEvent.before[3] # {}

\* C7: a switch into SET mode empties the range and keeps the date set; a
\* switch into RANGE mode empties the date set and keeps the range.
C7_SwitchClearsOtherMode ==
    [][ modeSwitch' # modeSwitch =>
          IF modeSwitch'
          THEN /\ startDate' = Null /\ endDate' = Null
               /\ selectedDates' = selectedDates
          ELSE /\ selectedDates' = {}
               /\ startDate' = startDate /\ endDate' = endDate ]_vars

\* C7 witness: a switch into SET mode that cleared a completed range and kept
\* a non-empty set
C7_Witness ==
    /\ lastEvent.op = "modeSwitch" /\ lastEvent.run = 1 /\ modeSwitch
    /\ lastEvent.before[2] # Null
    /\ lastEvent.before[3] # {} /\ selectedDates = lastEvent.before[3]
    /\ startDate = Null /\ endDate = Null

\* ------------------------------------------------------------ past dates
\* C8: a date click on a day before today changes neither the range nor the
\* date set, on the RANGE calendar and on the SET calendar.
C8_PastClickIgnored ==
    [][ (lastEvent'.op \in {"simpleDateClick", "advancedDateClick"}
           /\ lastEvent'.arg < Today)
        => UNCHANGED <<startDate, endDate, selectedDates>> ]_vars

\* --------------------------------------------------------------- duration
\* C9: for a completed range the computed duration is the inclusive number
\* of calendar days from start to end.
C9_DurationIsInclusiveDays ==
    endDate # Null =>
        LET days == LocalDay(tz, endDate) - LocalDay(tz, startDate) + 1
        IN  simpleDuration = <<days>> /\ simpleDurationDisplay = days

\* ---------------------------------------------------------------- set add
\* C10: a click on the SET calendar on a day already selected leaves the set
\* unchanged; on a day not selected it adds that day, the cardinality grows
\* by exactly one; the exported list never names a date twice.
C10_SetAddIdempotent ==
    [][ \A d \in Days :
          (lastEvent'.op = "advancedDateClick" /\ lastEvent'.arg = d) =>
            /\ IF d \in selectedDates
               THEN selectedDates' = selectedDates
               ELSE /\ selectedDates' = selectedDates \cup {d}
                    /\ Cardinality(selectedDates') = Cardinality(selectedDates) + 1
            /\ Len(dates') = Cardinality(selectedDates')
            /\ \A i, j \in 1..Len(dates') : dates'[i] = dates'[j] => i = j ]_vars

\* C10 witness: a click on a day that was already one of several selected
C10_Witness ==
    /\ lastEvent.op = "advancedDateClick" /\ ~lastEvent.ok
    /\ lastEvent.arg \in selectedDates
    /\ Cardinality(selectedDates) >= 2

\* ------------------------------------------------------- file validation
\* C11: a selected file whose lower-cased extension is not one of pdf, png,
\* jpg, jpeg, gif, bmp, or whose size exceeds 10,485,760 bytes, starts no
\* read and leaves the preview area as it was (no loading indicator); any
\* other file, one of exactly 10,485,760 bytes included, starts a read of
\* that file and shows the loading indicator.
C11_RejectedFileStartsNoRead ==
    [][ \A f \in Files :
          (lastEvent'.op = "attachmentChange" /\ lastEvent'.arg = f) =>
            IF \/ Extension(f) \notin {"pdf", "png", "jpg", "jpeg", "gif", "bmp"}
               \/ f.size > MaxFileSize
            THEN /\ readers' = readers
                 /\ nextReader' = nextReader
                 /\ attachmentPreview' = attachmentPreview
            ELSE /\ \E r \in readers' \ readers : r.file = f
                 /\ attachmentPreview'.kind = "loading"
                 /\ attachmentInput' = f ]_vars

\* C11 witness: a file over the limit has just been rejected while the
\* preview shows a loaded file of exactly the limit
C11_Witness ==
    /\ lastEvent.op = "attachmentChange" /\ ~lastEvent.ok
    /\ lastEvent.arg \in Files /\ lastEvent.arg.size > MaxFileSize
    /\ attachmentPreview.kind = "pdf"
    /\ attachmentPreview.file.size = MaxFileSize
    /\ readers = {}

\* C12: after a file read has failed, and for as long as the preview area
\* shows the load error, the submit control is not enabled.
C12_SubmitGatedAfterLoadError ==
    attachmentPreview.kind = "error" => submitDisabled

\* ------------------------------------------------------- derived fields
IsoField(t) == IF t = Null THEN <<>> ELSE <<LocalDay(tz, t)>>

\* C13: the range start field holds the ISO date of start (empty when
\* absent), the range end field the ISO date of end (empty when absent), and
\* the set field exactly the selected dates, each once, in strictly
\* ascending order.
C13_FieldsProjectSelection ==
    /\ simpleDateInput = IsoField(startDate)
    /\ simpleEndDateInput = IsoField(endDate)
    /\ Len(dates) = Cardinality(selectedDates)
    /\ {dates[i] : i \in 1..Len(dates)} = selectedDates
    /\ \A i \in 1..(Len(dates) - 1) : dates[i] < dates[i + 1]

\* the part of C13 that holds: the same, in the zones at or behind UTC
C13_ExceptEastOfUtc == tz # "East" => C13_FieldsProjectSelection

\* C14: the duration field holds the duration of the active mode's current
\* selection: the inclusive day count of a completed range, the cardinality
\* of the set in SET mode; with no completed range it is empty, 0, or 1 for
\* a lone start, never the count of an earlier range.
C14_DurationFieldCurrent ==
    IF modeSwitch
    THEN \/ simpleDuration = <<Cardinality(selectedDates)>>
         \/ (selectedDates = {} /\ simpleDuration = <<>>)
    ELSE IF endDate # Null
    THEN simpleDuration = <<LocalDay(tz, endDate) - LocalDay(tz, startDate) + 1>>
    ELSE \/ simpleDuration \in {<<>>, <<0>>}
         \/ (startDate # Null /\ simpleDuration = <<1>>)

\* the days a set of background events marks: those whose local noon an
\* event covers (an hour's overlap at a clock change marks nothing)
MarkedDays(events) ==
    { d \in Days : \E e \in events :
        LET noon == Midnight(tz, d) + (HoursPerDay \div 2)
        IN  e.start <= noon /\ noon < e.end }

RangeDays ==
    IF startDate = Null THEN {}
    ELSE IF endDate = Null THEN {LocalDay(tz, startDate)}
    ELSE {d \in Days : LocalDay(tz, startDate) <= d /\ d <= LocalDay(tz, endDate)}

\* C15: the days covered by background markers are, on the RANGE calendar,
\* the days from start to end (the start day alone while end is absent) and,
\* on the SET calendar, exactly the selected dates.
C15_MarkersMirrorModel ==
    /\ MarkedDays(simpleEvents) = RangeDays
    /\ MarkedDays(AdvancedEvents) = selectedDates

\* the part of C15 that holds: the RANGE calendar alone
C15_RangeMarkersOnly == MarkedDays(simpleEvents) = RangeDays

\* ------------------------------------------------------ starting a range
\* C16: in RANGE mode a click on a day d that is not past, made when no start
\* exists or when a completed range exists, leaves start = d and no end, an
\* invalid selection and a disabled submit button; the markers of the simple
\* calendar cover day d alone, so no second range remains.
C16_ClickStartsNewRange ==
    [][ \A d \in Days :
          ( /\ lastEvent'.op = "simpleDateClick" /\ lastEvent'.arg = d
            /\ d >= Today
            /\ ~modeSwitch
            /\ (startDate = Null \/ endDate # Null) )
          => /\ startDate' = Midnight(tz, d)
             /\ endDate' = Null
             /\ ~SelectionValid'
             /\ submitDisabled'
             /\ MarkedDays(simpleEvents') = {d} ]_vars

\* C16 witness: with a leave type chosen, a click has started a new range
\* after an earlier range had been completed (its duration is still in the
\* duration field)
C16_Witness ==
    /\ lastEvent.op = "simpleDateClick" /\ lastEvent.ok
    /\ ~modeSwitch /\ leaveType # ""
    /\ startDate # Null /\ endDate = Null
    /\ simpleDuration # <<>>
    /\ submitDisabled

\* ------------------------------------------------------ rejection, clearing
\* C17: after a file has been rejected for its type or its size, no file is
\* chosen and the preview area is empty, whatever was shown before.
C17_RejectReturnsToEmpty ==
    [][ \A f \in Files :
          ( /\ lastEvent'.op = "attachmentChange" /\ lastEvent'.arg = f
            /\ \/ Extension(f) \notin {"pdf", "png", "jpg", "jpeg", "gif", "bmp"}
               \/ f.size > MaxFileSize )
          => /\ attachmentInput' = NoFile
             /\ attachmentPreview' = EmptyPreview ]_vars

\* the attachment pipeline is empty: no file chosen, nothing in the preview
Cleared == attachmentInput = NoFile /\ attachmentPreview = EmptyPreview

\* C18: once the attachment has been cleared, no file is chosen and the
\* preview area stays empty until the user selects a file, also when a read
\* that was pending at the clear completes or fails afterwards.
C18_ClearIsStable ==
    [][ (Cleared /\ lastEvent'.op # "attachmentChange") => Cleared' ]_vars

\* ------------------------------------------------- load mode, preview kind
\* C19: an inline image preview is shown only for a file whose declared
\* content type starts with image/ and whose content was read as a data
\* URL; a file read as raw binary never gets an image preview.
C19_ImagePreviewFromDataURL ==
    attachmentPreview.kind = "image" =>
        /\ IsImageType(attachmentPreview.file)
        /\ attachmentPreview.src = "dataURL"

\* ----------------------------------------------------------- load progress
\* C20: an accepted selection shows the loading indicator when its read
\* starts, and the preview area comes to show an image, a PDF icon or the
\* load error only from the loading indicator.
C20_LoadedOnlyFromLoading ==
    [][ /\ (lastEvent'.op = "attachmentChange" /\ lastEvent'.ok)
            => attachmentPreview'.kind = "loading"
        /\ (lastEvent'.op \in {"readerLoad", "readerError"})
            => /\ attachmentPreview.kind = "loading"
               /\ attachmentPreview'.kind \in {"image", "pdf", "error"} ]_vars

\* the progress half of C20: when every started read completes or fails, a
\* loading indicator is followed by an image, a PDF icon or the load error
C20_LoadingLeadsToOutcome ==
    (attachmentPreview.kind = "loading")
        ~> (attachmentPreview.kind \in {"image", "pdf", "error"})

\* ------------------------------------------------------- ISO date of a day
\* C21: an accepted click on local day d of the simple calendar writes the
\* ISO date of d, never that of d - 1 or d + 1, into the form field of the
\* end of the range the click has set (start field, end field, or both), in
\* every time zone.
C21_FieldNamesClickedDay ==
    [][ \A d \in Days :
          (lastEvent'.op = "simpleDateClick" /\ lastEvent'.arg = d /\ lastEvent'.ok)
          => /\ startDate' = Midnight(tz, d) \/ endDate' = Midnight(tz, d)
             /\ startDate' = Midnight(tz, d) => simpleDateInput' = <<d>>
             /\ endDate' = Midnight(tz, d) => simpleEndDateInput' = <<d>> ]_vars

====
